---- MODULE Spec2Model ----
(***************************************************************************)
(* NewsPulse: the article discussion subsystem.                            *)
(*   news_pulse_app/app.py  fetch_full_article, ask_question and the       *)
(*                          "Send" handler of render_article_card          *)
(*   news_pulse_app/db.py   create_conversation, save_message,             *)
(*                          get_messages_for_article                       *)
(* Texts are sequences of one-character strings, so that len(), strip(),   *)
(* slicing and concatenation are computed as Python computes them.         *)
(***************************************************************************)
EXTENDS Integers, Sequences, FiniteSets, TLC

VARIABLES
    user,           \* st.session_state.user: 0 (None) or the id of the logged-in user
    open_chats,     \* st.session_state["open_chats"]: the urls whose discussion is open
    convo_map,      \* st.session_state["convo_map"]: convo key -> conversation id (0: no entry)
    article_chats,  \* st.session_state["article_chats"]: url -> in-memory transcript
    conversations,  \* table conversations, in rowid order
    messages,       \* table messages, in rowid order
    lastAsk,        \* the last call of ask_question: its inputs, its outbound calls, its result
    lastHandle,     \* the last run of the Send handler
    nHandled,       \* how many questions the session has handled
    lastCall,       \* the last direct call of a db.py accessor
    saved,          \* history: url -> the (role, content) pairs saved under it, in call order
    anyWriteFailed, \* history: some store write of the session raised
    sessions,       \* concurrent sessions: where each is in its Send handler, its own cache
    req             \* one question seen step by step: the stage it waits in

vars == <<user, open_chats, convo_map, article_chats, conversations, messages,
          lastAsk, lastHandle, nHandled, lastCall, saved, anyWriteFailed, sessions, req>>

----------------------------------------------------------------------------
(* String literals of the program. *)

NOT_FOUND == <<"N", "O", "T", "_", "F", "O", "U", "N", "D">>
FromTheArticle == <<"F", "r", "o", "m", " ", "t", "h", "e", " ", "a", "r", "t", "i", "c", "l", "e", ":", " ">>
ErrorGenerating == <<"E", "r", "r", "o", "r", " ", "g", "e", "n", "e", "r", "a", "t", "i", "n", "g", " ", "r", "e", "s", "p", "o", "n", "s", "e", ":", " ">>
PleaseRephrase == <<".", " ", "P", "l", "e", "a", "s", "e", " ", "r", "e", "p", "h", "r", "a", "s", "e", " ", "y", "o", "u", "r", " ", "q", "u", "e", "s", "t", "i", "o", "n", ".">>
NotAvailable == <<"F", "u", "l", "l", " ", "a", "r", "t", "i", "c", "l", "e", " ", "c", "o", "n", "t", "e", "n", "t", " ", "n", "o", "t", " ", "a", "v", "a", "i", "l", "a", "b", "l", "e", ".">>
ErrorFetching == <<"E", "r", "r", "o", "r", " ", "f", "e", "t", "c", "h", "i", "n", "g", " ", "f", "u", "l", "l", " ", "a", "r", "t", "i", "c", "l", "e", ":", " ">>
TruncationMarker == <<".", ".", ".">>
ParagraphBreak == <<"\n", "\n">>

\* app.py:118  len(extracted) > 10
MinSubstantive == 10
\* app.py:99   full_content[:4000]
MaxContext == 4000

\* str.strip() without arguments removes leading and trailing whitespace.
Whitespace == {" ", "\n", "\t", "\r"}

RECURSIVE LStrip(_)
LStrip(s) ==
    IF s = <<>> THEN <<>>
    ELSE IF Head(s) \in Whitespace THEN LStrip(Tail(s)) ELSE s

RECURSIVE RStrip(_)
RStrip(s) ==
    IF s = <<>> THEN <<>>
    ELSE IF s[Len(s)] \in Whitespace THEN RStrip(SubSeq(s, 1, Len(s) - 1)) ELSE s

Strip(s) == RStrip(LStrip(s))

\* s[:n]
Prefix(s, n) == SubSeq(s, 1, IF Len(s) < n THEN Len(s) ELSE n)

RECURSIVE Flatten(_)
Flatten(ss) == IF ss = <<>> THEN <<>> ELSE Head(ss) \o Flatten(Tail(ss))

----------------------------------------------------------------------------
(* fetch_full_article.  The HTTP collaborator answers with                 *)
(*   [kind |-> "error", msg]   requests.get or raise_for_status raised     *)
(*   [kind |-> "page", storyDetail, article, articleBody]                  *)
(* where each container is <<>> (absent) or <<nodes>>, nodes a sequence of *)
(* [tag, text] children in document order.                                 *)

RemovedTags == {"script", "style", "aside", "figure"}

\* article_body.find_all([...]) / elem.extract() / get_text(strip=True)
GetText(nodes) ==
    LET kept == SelectSeq(nodes, LAMBDA n : n.tag \notin RemovedTags)
    IN  Flatten([i \in 1..Len(kept) |-> Strip(kept[i].text)])

\* soup.select_one('div.storyDetail') or soup.select_one('article') or soup.find(...)
ArticleBody(page) ==
    IF page.storyDetail # <<>> THEN page.storyDetail
    ELSE IF page.article # <<>> THEN page.article
    ELSE page.articleBody

\* faulty variant of FetchOutcome: no except clause around the request
FetchOutcomeMutNoExcept(resp) ==
    IF resp.kind = "error" THEN [raised |-> TRUE, text |-> resp.msg]
    ELSE IF ArticleBody(resp) # <<>>
         THEN [raised |-> FALSE, text |-> GetText(ArticleBody(resp)[1])]
         ELSE [raised |-> FALSE, text |-> NotAvailable]

\* app.py:28-42: the whole body is inside try; except Exception turns what
\* requests.get or raise_for_status raised into the returned text
FetchOutcome(resp) ==
    IF resp.kind = "error" THEN [raised |-> FALSE, text |-> ErrorFetching \o resp.msg]
    ELSE IF ArticleBody(resp) # <<>>
         THEN [raised |-> FALSE, text |-> GetText(ArticleBody(resp)[1])]
         ELSE [raised |-> FALSE, text |-> NotAvailable]

fetch_full_article(resp) == FetchOutcome(resp).text

----------------------------------------------------------------------------
(* ask_question.  g2, g3, g4 are what client.models.generate_content does  *)
(* when called at the extraction, reasoning and fallback stage:            *)
(*   [ok |-> TRUE, text]  or  [ok |-> FALSE, msg]  (it raises).            *)
(* A prompt is recorded by the values interpolated into its template.      *)

\* app.py:98
FullContent(article, resp) ==
    IF article.url # "" THEN fetch_full_article(resp)
    ELSE article.title \o ParagraphBreak \o article.description

\* faulty variant of Context: a text of exactly MaxContext characters is cut too
ContextMutGe(full_content) ==
    IF Len(full_content) >= MaxContext
    THEN Prefix(full_content, MaxContext) \o TruncationMarker
    ELSE full_content

\* app.py:99
Context(full_content) ==
    IF Len(full_content) > MaxContext
    THEN Prefix(full_content, MaxContext) \o TruncationMarker
    ELSE full_content

ExtractionPrompt(context, question) ==
    [stage |-> "extraction", context |-> context, question |-> question]

ReasonedPrompt(article, question) ==
    [stage |-> "reasoning", title |-> article.title,
     description |-> article.description, question |-> question]

FallbackPrompt(article, question) ==
    [stage |-> "fallback", title |-> article.title,
     description |-> article.description, question |-> question]

\* sub occurs in s (Python's "sub in s")
Contains(s, sub) ==
    \E i \in 0..(Len(s) - Len(sub)) : SubSeq(s, i + 1, i + Len(sub)) = sub

\* faulty variant of Substantive: the sentinel is looked for inside the text
SubstantiveMutContains(g2) ==
    g2.ok /\ ~Contains(Strip(g2.text), NOT_FOUND) /\ Len(Strip(g2.text)) > MinSubstantive

\* app.py:116-118
Substantive(g2) ==
    g2.ok /\ Strip(g2.text) # NOT_FOUND /\ Len(Strip(g2.text)) > MinSubstantive

\* app.py:119
Attributed(extracted) == FromTheArticle \o extracted

\* faulty variant of FinalError: the message of the fallback's exception is embedded
FinalErrorMutFallbackE(g3, g4) == ErrorGenerating \o g4.msg \o PleaseRephrase

\* app.py:150: e is the exception of the reasoning call
FinalError(g3, g4) == ErrorGenerating \o g3.msg \o PleaseRephrase

\* faulty variant of Escalate: the reasoned answer gets the attribution prefix
EscalateMutPrefix(article, question, g3, g4) ==
    IF g3.ok
    THEN [calls  |-> <<ReasonedPrompt(article, question)>>,
          raised |-> FALSE,
          result |-> Attributed(g3.text)]
    ELSE [calls  |-> <<ReasonedPrompt(article, question), FallbackPrompt(article, question)>>,
          raised |-> FALSE,
          result |-> IF g4.ok THEN g4.text ELSE FinalError(g3, g4)]

\* faulty variant of Escalate: the reasoning call is tried again before the fallback
EscalateMutRetry(article, question, g3, g4) ==
    IF g3.ok
    THEN [calls  |-> <<ReasonedPrompt(article, question)>>,
          raised |-> FALSE,
          result |-> g3.text]
    ELSE [calls  |-> <<ReasonedPrompt(article, question), ReasonedPrompt(article, question),
                       FallbackPrompt(article, question)>>,
          raised |-> FALSE,
          result |-> IF g4.ok THEN g4.text ELSE FinalError(g3, g4)]

\* faulty variant of Escalate: the fallback call is not inside a try
EscalateMutNoInnerTry(article, question, g3, g4) ==
    IF g3.ok
    THEN [calls  |-> <<ReasonedPrompt(article, question)>>,
          raised |-> FALSE,
          result |-> g3.text]
    ELSE [calls  |-> <<ReasonedPrompt(article, question), FallbackPrompt(article, question)>>,
          raised |-> ~g4.ok,
          result |-> IF g4.ok THEN g4.text ELSE <<>>]

\* app.py:130-150: what follows once stage 2 has not returned
Escalate(article, question, g3, g4) ==
    IF g3.ok
    THEN [calls  |-> <<ReasonedPrompt(article, question)>>,
          raised |-> FALSE,
          result |-> g3.text]
    ELSE [calls  |-> <<ReasonedPrompt(article, question), FallbackPrompt(article, question)>>,
          raised |-> FALSE,
          result |-> IF g4.ok THEN g4.text ELSE FinalError(g3, g4)]

\* app.py:92-150
ask_question(article, question, resp, g2, g3, g4) ==
    LET context == Context(FullContent(article, resp))
        first   == ExtractionPrompt(context, question)
        rest    == Escalate(article, question, g3, g4)
    IN  IF Substantive(g2)
        THEN [fetched  |-> article.url # "",
              context  |-> context,
              calls    |-> <<first>>,
              warnings |-> 0,
              raised   |-> FALSE,
              result   |-> Attributed(Strip(g2.text))]
        ELSE [fetched  |-> article.url # "",
              context  |-> context,
              calls    |-> <<first>> \o rest.calls,
              warnings |-> IF g2.ok THEN 0 ELSE 1,
              raised   |-> rest.raised,
              result   |-> rest.result]

----------------------------------------------------------------------------
(* Inputs of ask_question: articles, questions, and what the collaborators *)
(* answer.                                                                 *)

TitleT == <<"T">>
DescD == <<"D">>
WhatHappened == <<"W", "h", "a", "t", " ", "h", "a", "p", "p", "e", "n", "e", "d", "?">>
WhoWon == <<"W", "h", "o", " ", "w", "o", "n", "?">>
DirectAnswer == <<"T", "h", "e", " ", "a", "n", "s", "w", "e", "r", ".">>
TenChars == <<"T", "e", "n", " ", "c", "h", "a", "r", "s", ".">>
PaddedSentinel == <<"N", "O", "T", "_", "F", "O", "U", "N", "D", "\n", "\n">>
PaddedAnswer == <<" ", "T", "h", "e", " ", "a", "n", "s", "w", "e", "r", ".", "\n">>
PaddedShort == <<" ", " ", "s", "h", "o", "r", "t", " ", " ", " ", "\n">>
ReasonedAnswer == <<"R", "e", "a", "s", "o", "n", "e", "d", " ", "a", "n", "s", "w", "e", "r", ".">>
PaddedReasoned == <<" ", "R", "e", "a", "s", "o", "n", "e", "d", " ", "a", "n", "s", "w", "e", "r", ".", "\n">>
FallbackAnswer == <<"F", "a", "l", "l", "b", "a", "c", "k", " ", "a", "n", "s", "w", "e", "r", ".">>
QuotaMsg == <<"q", "u", "o", "t", "a">>
TimeoutMsg == <<"t", "i", "m", "e", "o", "u", "t">>
AuthMsg == <<"a", "u", "t", "h">>
ConnRefused == <<"c", "o", "n", "n", "e", "c", "t", "i", "o", "n", " ", "r", "e", "f", "u", "s", "e", "d">>
Http404 == <<"4", "0", "4", " ", "C", "l", "i", "e", "n", "t", " ", "E", "r", "r", "o", "r">>
SentinelInside == <<"N", "O", "T", "_", "F", "O", "U", "N", "D", " ", "y", "e", "t", ".">>
BodyText == <<"B", "o", "d", "y", " ", "o", "f", " ", "t", "h", "e", " ", "s", "t", "o", "r", "y", ".">>

\* md5("https://x/43061") and md5("https://x/76240") both begin with a6ae6013
UrlA == "https://x/a"
UrlB == "https://x/43061"
UrlC == "https://x/76240"

ArticleA == [url |-> UrlA, title |-> TitleT, description |-> DescD]
ArticleB == [url |-> UrlB, title |-> TitleT, description |-> <<>>]
ArticleC == [url |-> UrlC, title |-> DescD, description |-> DescD]
\* _normalize_articles: a.get("url", "")
ArticleNoUrl == [url |-> "", title |-> TitleT, description |-> DescD]

Questions == {WhatHappened, WhoWon}

Node(tag, text) == [tag |-> tag, text |-> text]
Page(sd, ar, ab) == [kind |-> "page", storyDetail |-> sd, article |-> ar, articleBody |-> ab]
Repeat(c, n) == [i \in 1..n |-> c]

HttpErrors == {[kind |-> "error", msg |-> ConnRefused], [kind |-> "error", msg |-> Http404]}

HttpPages ==
    { Page(<<>>, <<>>, <<>>),
      Page(<< <<Node("p", BodyText)>> >>, << <<Node("p", DirectAnswer)>> >>, <<>>),
      Page(<<>>, << <<Node("script", AuthMsg), Node("p", PaddedAnswer)>> >>,
           << <<Node("p", TenChars)>> >>),
      Page(<<>>, <<>>, << <<Node("p", ReasonedAnswer), Node("figure", TenChars)>> >>),
      Page(<< <<>> >>, <<>>, <<>>),
      Page(<<>>, <<>>, << <<Node("p", BodyText),
                             Node("p", Repeat("x", MaxContext - Len(BodyText)))>> >>),
      Page(<<>>, <<>>, << <<Node("p", BodyText),
                             Node("p", Repeat("x", MaxContext - Len(BodyText))),
                             Node("p", <<"y">>)>> >>) }

HttpOutcomes == HttpErrors \cup HttpPages

Ok(text) == [ok |-> TRUE, text |-> text]
Raises(msg) == [ok |-> FALSE, msg |-> msg]

G2Outcomes ==
    { Ok(DirectAnswer), Ok(PaddedAnswer), Ok(TenChars), Ok(PaddedShort),
      Ok(NOT_FOUND), Ok(PaddedSentinel), Ok(SentinelInside), Ok(<<>>), Raises(AuthMsg) }
G3Outcomes == { Ok(ReasonedAnswer), Ok(PaddedReasoned), Raises(QuotaMsg) }
G4Outcomes == { Ok(FallbackAnswer), Raises(TimeoutMsg) }

NoAsk == [called |-> FALSE]

\* faulty variant of AskCall: the answer is persisted by ask_question itself
AskCallMutPersists(article, question, resp, g2, g3, g4) ==
    /\ ~lastAsk.called
    /\ lastAsk' = [called |-> TRUE, article |-> article, question |-> question,
                   resp |-> resp, g2 |-> g2, g3 |-> g3, g4 |-> g4,
                   out |-> ask_question(article, question, resp, g2, g3, g4)]
    /\ messages' = Append(messages, [id |-> Len(messages) + 1, conversation_id |-> 1,
                                     role |-> "assistant", content |-> lastAsk'.out.result])
    /\ UNCHANGED <<user, open_chats, convo_map, article_chats, conversations,
                   lastHandle, nHandled, lastCall, saved, anyWriteFailed, sessions, req>>

\* app.py:92-150 called directly
AskCall(article, question, resp, g2, g3, g4) ==
    /\ ~lastAsk.called
    /\ lastAsk' = [called |-> TRUE, article |-> article, question |-> question,
                   resp |-> resp, g2 |-> g2, g3 |-> g3, g4 |-> g4,
                   out |-> ask_question(article, question, resp, g2, g3, g4)]
    /\ UNCHANGED <<user, open_chats, convo_map, article_chats, conversations, messages,
                   lastHandle, nHandled, lastCall, saved, anyWriteFailed, sessions, req>>

----------------------------------------------------------------------------
(* db.py: the conversations and messages tables.  A row's id is its rowid; *)
(* no statement of the program deletes from either table, so the next      *)
(* rowid is the number of rows plus one.                                   *)

\* db.py:7-10: get_connection opens the connection and sets row_factory only;
\* it never issues PRAGMA foreign_keys = ON, and SQLite leaves foreign-key
\* enforcement off on a connection that has not asked for it.
ForeignKeysEnforced == FALSE

ConversationIds(convs) == {convs[i].id : i \in 1..Len(convs)}

\* faulty variant of create_conversation: an existing row of the same user and article
\* is reused instead of a new one being inserted
create_conversationMutReuse(convs, user_id, article_url, ioOk) ==
    IF ~ioOk
    THEN [raised |-> TRUE, conversations |-> convs, lastrowid |-> 0]
    ELSE IF \E i \in 1..Len(convs) : convs[i].user_id = user_id
                                     /\ convs[i].article_url = article_url
         THEN [raised |-> FALSE, conversations |-> convs,
               lastrowid |-> (CHOOSE i \in 1..Len(convs) :
                                 convs[i].user_id = user_id
                                 /\ convs[i].article_url = article_url)]
         ELSE [raised |-> FALSE,
               conversations |-> Append(convs, [id |-> Len(convs) + 1, user_id |-> user_id,
                                                article_url |-> article_url]),
               lastrowid |-> Len(convs) + 1]

\* db.py:130-134.  ioOk = FALSE: the statement raises (locked or unwritable database).
create_conversation(convs, user_id, article_url, ioOk) ==
    IF ~ioOk
    THEN [raised |-> TRUE, conversations |-> convs, lastrowid |-> 0]
    ELSE [raised |-> FALSE,
          conversations |-> Append(convs, [id |-> Len(convs) + 1, user_id |-> user_id,
                                           article_url |-> article_url]),
          lastrowid |-> Len(convs) + 1]

\* faulty variant of save_message: the row replaces the conversation's earlier row
\* of the same role instead of being added after the last row
save_messageMutUpsert(convs, msgs, conversation_id, role, content, ioOk) ==
    IF ~ioOk
    THEN [raised |-> TRUE, messages |-> msgs]
    ELSE [raised |-> FALSE,
          messages |-> Append(SelectSeq(msgs, LAMBDA m : ~(m.conversation_id = conversation_id
                                                           /\ m.role = role)),
                              [id |-> Len(msgs) + 1, conversation_id |-> conversation_id,
                               role |-> role, content |-> content])]

\* faulty variant of save_message: the role column is not taken from the argument
save_messageMutRole(convs, msgs, conversation_id, role, content, ioOk) ==
    IF ~ioOk
    THEN [raised |-> TRUE, messages |-> msgs]
    ELSE [raised |-> FALSE,
          messages |-> Append(msgs, [id |-> Len(msgs) + 1, conversation_id |-> conversation_id,
                                     role |-> "user", content |-> content])]

\* db.py:136-139
save_message(convs, msgs, conversation_id, role, content, ioOk) ==
    IF ~ioOk \/ (ForeignKeysEnforced /\ conversation_id \notin ConversationIds(convs))
    THEN [raised |-> TRUE, messages |-> msgs]
    ELSE [raised |-> FALSE,
          messages |-> Append(msgs, [id |-> Len(msgs) + 1, conversation_id |-> conversation_id,
                                     role |-> role, content |-> content])]

Row(m) == [role |-> m.role, content |-> m.content]

\* db.py:141-150
JoinedRows(convs, msgs, article_url) ==
    SelectSeq(msgs, LAMBDA m : \E i \in 1..Len(convs) :
                                  /\ convs[i].id = m.conversation_id
                                  /\ convs[i].article_url = article_url)

get_messages_for_article(convs, msgs, article_url) ==
    LET joined == JoinedRows(convs, msgs, article_url)
    IN  [i \in 1..Len(joined) |-> Row(joined[i])]

----------------------------------------------------------------------------
(* Direct calls of the store's accessors.                                  *)

MaxConversations == 2
MaxMessages == 2

Users == {1, 2}
Urls == {UrlA, UrlB}
Roles == {"user", "assistant"}
Contents == {WhatHappened, ReasonedAnswer}

NoCall == [op |-> "none"]

UrlOf(convs, conversation_id) ==
    LET i == CHOOSE i \in 1..Len(convs) : convs[i].id = conversation_id
    IN  convs[i].article_url

CreateConversationCall(user_id, article_url, ioOk) ==
    /\ Len(conversations) < MaxConversations
    /\ LET r == create_conversation(conversations, user_id, article_url, ioOk)
       IN  /\ conversations' = r.conversations
           /\ lastCall' = [op |-> "create_conversation", raised |-> r.raised,
                           result |-> r.lastrowid]
    /\ UNCHANGED <<user, open_chats, convo_map, article_chats, messages,
                   lastAsk, lastHandle, nHandled, saved, anyWriteFailed, sessions, req>>

SaveMessageCall(conversation_id, role, content, ioOk) ==
    /\ Len(messages) < MaxMessages
    /\ LET r     == save_message(conversations, messages, conversation_id, role, content, ioOk)
           known == conversation_id \in ConversationIds(conversations)
       IN  /\ messages' = r.messages
           /\ lastCall' = [op |-> "save_message", raised |-> r.raised, known |-> known]
           /\ saved' = IF known /\ ~r.raised
                       THEN [saved EXCEPT ![UrlOf(conversations, conversation_id)] =
                                Append(@, [role |-> role, content |-> content])]
                       ELSE saved
    /\ UNCHANGED <<user, open_chats, convo_map, article_chats, conversations,
                   lastAsk, lastHandle, nHandled, anyWriteFailed, sessions, req>>

GetMessagesCall(article_url) ==
    /\ lastCall' = [op |-> "get_messages_for_article", raised |-> FALSE,
                    url |-> article_url,
                    result |-> get_messages_for_article(conversations, messages, article_url)]
    /\ UNCHANGED <<user, open_chats, convo_map, article_chats, conversations, messages,
                   lastAsk, lastHandle, nHandled, saved, anyWriteFailed, sessions, req>>

----------------------------------------------------------------------------
(* The session: login, logout, the Discuss button and the Send handler of  *)
(* render_article_card.                                                    *)

MaxQuestions == 2

SessionArticles == {ArticleA, ArticleC}
SessionUrls == {UrlA, UrlB, UrlC}

\* app.py:274  hashlib.md5(url.encode()).hexdigest()[:8]: 32 bits of the digest, so
\* the map from urls to keys is not injective.  The values are the digests' first
\* 8 hex digits for the three urls.
url_hash(url) ==
    CASE url = UrlA -> "3a1b40c4"
      [] url = UrlB -> "a6ae6013"
      [] url = UrlC -> "a6ae6013"

ConvoKeys == {url_hash(u) : u \in SessionUrls}

\* app.py:274, 303, 327: for an article without url the widget keys come from
\* str(time.time()), which differs on every rerun, so the button that was
\* clicked is never the button the rerun draws: only an article with a url can
\* have its discussion opened or a question sent.
StableKey(article) == article.url # ""

\* the questions the session's user asks about an article
SessionQuestions(article) == IF article.url = UrlC THEN {WhoWon} ELSE {WhatHappened}
SessionHttp == { Page(<< <<Node("p", BodyText)>> >>, <<>>, <<>>) }
SessionG2 == { Ok(DirectAnswer), Ok(NOT_FOUND) }
SessionG3 == { Ok(ReasonedAnswer), Raises(QuotaMsg) }
SessionG4 == { Raises(TimeoutMsg) }

UserEntry(content) == [role |-> "user", content |-> content]
AssistantEntry(content) == [role |-> "assistant", content |-> content]

\* faulty variant of ResolveConversation: a row is created for every question and its
\* id replaces the cached one
ResolveConversationMutOverwrite(cmap, convs, key, user_id, url, createOk) ==
    LET r == create_conversation(convs, user_id, url, createOk)
    IN  IF r.raised
        THEN [raised |-> TRUE, convo_id |-> 0, convo_map |-> cmap,
              conversations |-> convs, writes |-> 1]
        ELSE [raised |-> FALSE, convo_id |-> r.lastrowid,
              convo_map |-> [cmap EXCEPT ![key] = r.lastrowid],
              conversations |-> r.conversations, writes |-> 1]

\* faulty variant of ResolveConversation: the cached id is neither read nor stored
ResolveConversationMutNoCache(cmap, convs, key, user_id, url, createOk) ==
    LET r == create_conversation(convs, user_id, url, createOk)
    IN  [raised |-> r.raised, convo_id |-> r.lastrowid, convo_map |-> cmap,
         conversations |-> r.conversations, writes |-> 1]

\* app.py:329-335: look the conversation id up, create the row when there is none
ResolveConversation(cmap, convs, key, user_id, url, createOk) ==
    IF cmap[key] # 0
    THEN [raised |-> FALSE, convo_id |-> cmap[key], convo_map |-> cmap,
          conversations |-> convs, writes |-> 0]
    ELSE LET r == create_conversation(convs, user_id, url, createOk)
         IN  IF r.raised
             THEN [raised |-> TRUE, convo_id |-> 0, convo_map |-> cmap,
                   conversations |-> convs, writes |-> 1]
             ELSE [raised |-> FALSE, convo_id |-> r.lastrowid,
                   convo_map |-> [cmap EXCEPT ![key] = r.lastrowid],
                   conversations |-> r.conversations, writes |-> 1]

\* faulty variant of TranscriptAfter: an exception of the store ends the handler
TranscriptAfterMutUncaught(msgs, question, answer, storeRaised) ==
    IF storeRaised THEN Append(msgs, UserEntry(question))
    ELSE Append(Append(msgs, UserEntry(question)), AssistantEntry(answer))

\* app.py:328, 343, 349: both entries are appended whatever the store did, because
\* the store's exceptions are caught at 337 and 347
TranscriptAfter(msgs, question, answer, storeRaised) ==
    Append(Append(msgs, UserEntry(question)), AssistantEntry(answer))

NoHandle == [handled |-> FALSE]

\* app.py:327-350
HandleQuestion(article, question, resp, g2, g3, g4, createOk, saveUserOk, saveAssistantOk) ==
    /\ user # 0
    /\ StableKey(article)
    /\ article.url \in open_chats
    /\ question # <<>>
    /\ nHandled < MaxQuestions
    /\ LET url      == article.url
           key      == url_hash(url)
           resolved == ResolveConversation(convo_map, conversations, key, user, url, createOk)
           convo_id == resolved.convo_id
           \* 336: reached only when 333-335 did not raise
           userSave == IF resolved.raised
                       THEN [raised |-> FALSE, messages |-> messages]
                       ELSE save_message(resolved.conversations, messages, convo_id,
                                         "user", question, saveUserOk)
           asked    == ask_question(article, question, resp, g2, g3, g4)
           \* 340-342: ask_question catches what its collaborators raise, so the
           \* handler's own except branch is never taken
           answer   == asked.result
           \* 344-346: if convo_id
           asstSave == IF convo_id = 0
                       THEN [raised |-> FALSE, messages |-> userSave.messages]
                       ELSE save_message(resolved.conversations, userSave.messages, convo_id,
                                         "assistant", answer, saveAssistantOk)
           storeRaised == resolved.raised \/ userSave.raised \/ asstSave.raised
       IN  /\ convo_map' = resolved.convo_map
           /\ conversations' = resolved.conversations
           /\ messages' = asstSave.messages
           /\ article_chats' = [article_chats EXCEPT ![url] =
                                   TranscriptAfter(@, question, answer, storeRaised)]
           /\ lastHandle' = [handled |-> TRUE, url |-> url, question |-> question,
                             answer |-> answer, user |-> user,
                             cached |-> convo_map[key] # 0,
                             convo_id |-> convo_id,
                             netCalls |-> (IF asked.fetched THEN 1 ELSE 0) + Len(asked.calls),
                             dbWrites |-> resolved.writes
                                          + (IF resolved.raised THEN 0 ELSE 1)
                                          + (IF convo_id = 0 THEN 0 ELSE 1),
                             createCalled |-> resolved.writes = 1,
                             createRaised |-> resolved.raised,
                             saveRaised |-> userSave.raised \/ asstSave.raised]
           /\ anyWriteFailed' = (anyWriteFailed \/ storeRaised)
    /\ nHandled' = nHandled + 1
    /\ UNCHANGED <<user, open_chats, lastAsk, lastCall, saved, sessions, req>>

\* app.py:223-227
Login(u) ==
    /\ user = 0
    /\ user' = u
    /\ UNCHANGED <<open_chats, convo_map, article_chats, conversations, messages,
                   lastAsk, lastHandle, nHandled, lastCall, saved, anyWriteFailed, sessions, req>>

\* app.py:180-182, 534-536
do_logout ==
    /\ user # 0
    /\ user' = 0
    /\ UNCHANGED <<open_chats, convo_map, article_chats, conversations, messages,
                   lastAsk, lastHandle, nHandled, lastCall, saved, anyWriteFailed, sessions, req>>

\* app.py:303-305
Discuss(article) ==
    /\ user # 0
    /\ StableKey(article)
    /\ open_chats' = open_chats \cup {article.url}
    /\ UNCHANGED <<user, convo_map, article_chats, conversations, messages,
                   lastAsk, lastHandle, nHandled, lastCall, saved, anyWriteFailed, sessions, req>>

----------------------------------------------------------------------------
(* Specifications. *)

SessionIds == {1, 2}

\* st.session_state of a session before its first question: no cached id
IdleSession == [pc |-> "idle", cache |-> 0, convo_id |-> 0, n |-> 0,
                created |-> {}, wrote |-> {}]

NoRequest == [pc |-> "idle"]

Init ==
    /\ user = 0
    /\ open_chats = {}
    /\ convo_map = [k \in ConvoKeys |-> 0]
    /\ article_chats = [u \in SessionUrls |-> <<>>]
    /\ conversations = <<>>
    /\ messages = <<>>
    /\ lastAsk = NoAsk
    /\ lastHandle = NoHandle
    /\ nHandled = 0
    /\ lastCall = NoCall
    /\ saved = [u \in Urls |-> <<>>]
    /\ anyWriteFailed = FALSE
    /\ sessions = [s \in SessionIds |-> IdleSession]
    /\ req = NoRequest

----------------------------------------------------------------------------
(* Two browser sessions of one user, each running the Send handler of      *)
(* app.py:327-350 on the same article.  A session's script run is          *)
(* sequential; the sessions interleave between statements.  Every db.py    *)
(* accessor opens its own connection and commits before returning, so one  *)
(* accessor call is one step.                                              *)

MaxConcQuestions == 2

ConcUser == 1

\* what ask_question returns in these sessions
ConcAnswer ==
    ask_question(ArticleA, WhatHappened, Page(<< <<Node("p", BodyText)>> >>, <<>>, <<>>),
                 Ok(NOT_FOUND), Ok(ReasonedAnswer), Raises(TimeoutMsg)).result

OthersUnchanged ==
    UNCHANGED <<user, open_chats, convo_map, article_chats, lastAsk, lastHandle,
                nHandled, lastCall, saved, anyWriteFailed, req>>

\* app.py:327-331: the button fired; convo_id = convo_map.get(convo_key)
SendStart(s) ==
    /\ sessions[s].pc = "idle"
    /\ sessions[s].n < MaxConcQuestions
    /\ sessions' = [sessions EXCEPT ![s].convo_id = sessions[s].cache,
                                    ![s].pc = IF sessions[s].cache = 0 THEN "create"
                                              ELSE "saveUser"]
    /\ UNCHANGED <<conversations, messages>>
    /\ OthersUnchanged

\* app.py:333-335; a raise goes to the except at 337, past the save at 336
CreateStep(s, ioOk) ==
    /\ sessions[s].pc = "create"
    /\ LET r == create_conversation(conversations, ConcUser, UrlA, ioOk)
       IN  /\ conversations' = r.conversations
           /\ sessions' = IF r.raised
                          THEN [sessions EXCEPT ![s].pc = "ask"]
                          ELSE [sessions EXCEPT ![s].pc = "saveUser",
                                                ![s].convo_id = r.lastrowid,
                                                ![s].cache = r.lastrowid,
                                                ![s].created = @ \cup {r.lastrowid}]
    /\ UNCHANGED messages
    /\ OthersUnchanged

\* app.py:336
SaveUserStep(s, ioOk) ==
    /\ sessions[s].pc = "saveUser"
    /\ LET r == save_message(conversations, messages, sessions[s].convo_id, "user",
                             WhatHappened, ioOk)
       IN  /\ messages' = r.messages
           /\ sessions' = [sessions EXCEPT ![s].pc = "ask",
                                           ![s].wrote = IF r.raised THEN @
                                                        ELSE @ \cup {Len(r.messages)}]
    /\ UNCHANGED conversations
    /\ OthersUnchanged

\* app.py:340-345: the answer is computed; the save is skipped without a convo_id
AskStep(s) ==
    /\ sessions[s].pc = "ask"
    /\ sessions' = IF sessions[s].convo_id = 0
                   THEN [sessions EXCEPT ![s].pc = "idle", ![s].n = @ + 1]
                   ELSE [sessions EXCEPT ![s].pc = "saveAssistant"]
    /\ UNCHANGED <<conversations, messages>>
    /\ OthersUnchanged

\* app.py:346-350
SaveAssistantStep(s, ioOk) ==
    /\ sessions[s].pc = "saveAssistant"
    /\ LET r == save_message(conversations, messages, sessions[s].convo_id, "assistant",
                             ConcAnswer, ioOk)
       IN  /\ messages' = r.messages
           /\ sessions' = [sessions EXCEPT ![s].pc = "idle", ![s].n = @ + 1,
                                           ![s].wrote = IF r.raised THEN @
                                                        ELSE @ \cup {Len(r.messages)}]
    /\ UNCHANGED conversations
    /\ OthersUnchanged

NextConc ==
    \/ \E s \in SessionIds : SendStart(s)
    \/ \E s \in SessionIds, ioOk \in BOOLEAN : CreateStep(s, ioOk)
    \/ \E s \in SessionIds, ioOk \in BOOLEAN : SaveUserStep(s, ioOk)
    \/ \E s \in SessionIds : AskStep(s)
    \/ \E s \in SessionIds, ioOk \in BOOLEAN : SaveAssistantStep(s, ioOk)

----------------------------------------------------------------------------
(* One question followed through its blocking calls (app.py:98-150, with   *)
(* the request of app.py:30).  The web server is outside the program: it   *)
(* may answer the request, and nothing obliges it to.                      *)

\* app.py:30  requests.get(url, headers=headers): no timeout argument, and requests
\* waits without limit when none is given
RequestTimeout == "None"

StoreUnchanged ==
    UNCHANGED <<user, open_chats, convo_map, article_chats, conversations, messages,
                lastAsk, lastHandle, nHandled, lastCall, saved, anyWriteFailed, sessions>>

\* app.py:98: the request is sent, or the context is title and description
AskBegins(article, question) ==
    /\ req.pc \in {"idle", "answered"}
    /\ req' = IF article.url # ""
              THEN [pc |-> "fetching", article |-> article, question |-> question,
                    arrived |-> FALSE]
              ELSE [pc |-> "extracting", article |-> article, question |-> question,
                    resp |-> Page(<<>>, <<>>, <<>>)]
    /\ StoreUnchanged

\* the server (or the network) answers the request
ServerResponds(resp) ==
    /\ req.pc = "fetching"
    /\ ~req.arrived
    /\ req' = [pc |-> "fetching", article |-> req.article, question |-> req.question,
               arrived |-> TRUE, resp |-> resp]
    /\ StoreUnchanged

\* app.py:30-42: requests.get returns or raises once the answer is there, or once the
\* transport's timeout has run out if there is one
FetchReturns ==
    /\ req.pc = "fetching"
    /\ req.arrived \/ RequestTimeout # "None"
    /\ req' = [pc |-> "extracting", article |-> req.article, question |-> req.question,
               resp |-> IF req.arrived THEN req.resp
                        ELSE [kind |-> "error", msg |-> TimeoutMsg]]
    /\ StoreUnchanged

\* app.py:110-121
ExtractionReturns(g2) ==
    /\ req.pc = "extracting"
    /\ req' = IF Substantive(g2)
              THEN [pc |-> "answered",
                    result |-> ask_question(req.article, req.question, req.resp,
                                            g2, g2, g2).result]
              ELSE [pc |-> "reasoning", article |-> req.article, question |-> req.question,
                    resp |-> req.resp, g2 |-> g2]
    /\ StoreUnchanged

\* app.py:130-137
ReasoningReturns(g3) ==
    /\ req.pc = "reasoning"
    /\ req' = IF g3.ok
              THEN [pc |-> "answered",
                    result |-> ask_question(req.article, req.question, req.resp,
                                            req.g2, g3, g3).result]
              ELSE [pc |-> "fallback", article |-> req.article, question |-> req.question,
                    resp |-> req.resp, g2 |-> req.g2, g3 |-> g3]
    /\ StoreUnchanged

\* app.py:139-150
FallbackReturns(g4) ==
    /\ req.pc = "fallback"
    /\ req' = [pc |-> "answered",
               result |-> ask_question(req.article, req.question, req.resp,
                                       req.g2, req.g3, g4).result]
    /\ StoreUnchanged

ProgramStep ==
    \/ FetchReturns
    \/ \E g2 \in G2Outcomes : ExtractionReturns(g2)
    \/ \E g3 \in G3Outcomes : ReasoningReturns(g3)
    \/ \E g4 \in G4Outcomes : FallbackReturns(g4)

NextHang ==
    \/ \E a \in {ArticleA, ArticleNoUrl}, q \in Questions : AskBegins(a, q)
    \/ \E resp \in HttpOutcomes : ServerResponds(resp)
    \/ ProgramStep

\* One session of the application.
Next ==
    \/ \E u \in Users : Login(u)
    \/ do_logout
    \/ \E a \in SessionArticles : Discuss(a)
    \/ \E a \in SessionArticles : \E q \in SessionQuestions(a), resp \in SessionHttp,
          g2 \in SessionG2, g3 \in SessionG3, g4 \in SessionG4,
          createOk \in BOOLEAN, saveUserOk \in BOOLEAN, saveAssistantOk \in BOOLEAN :
          HandleQuestion(a, q, resp, g2, g3, g4, createOk, saveUserOk, saveAssistantOk)

Spec == Init /\ [][Next]_vars

\* One session that is shown two articles whose urls share their key.
CollidingArticles == {ArticleB, ArticleC}

NextCollide ==
    \/ \E u \in Users : Login(u)
    \/ do_logout
    \/ \E a \in CollidingArticles : Discuss(a)
    \/ \E a \in CollidingArticles : \E q \in SessionQuestions(a), resp \in SessionHttp,
          g2 \in SessionG2, g3 \in SessionG3, g4 \in SessionG4,
          createOk \in BOOLEAN, saveUserOk \in BOOLEAN, saveAssistantOk \in BOOLEAN :
          HandleQuestion(a, q, resp, g2, g3, g4, createOk, saveUserOk, saveAssistantOk)

SpecCollide == Init /\ [][NextCollide]_vars

\* The session after one question on ArticleA was handled and stored.
InSession ==
    /\ user = 1
    /\ open_chats = {UrlA}
    /\ convo_map = [k \in ConvoKeys |-> IF k = url_hash(UrlA) THEN 1 ELSE 0]
    /\ article_chats = [u \in SessionUrls |->
                           IF u = UrlA THEN <<UserEntry(WhatHappened),
                                              AssistantEntry(ReasonedAnswer)>>
                           ELSE <<>>]
    /\ conversations = <<[id |-> 1, user_id |-> 1, article_url |-> UrlA]>>
    /\ messages = <<[id |-> 1, conversation_id |-> 1, role |-> "user",
                     content |-> WhatHappened],
                    [id |-> 2, conversation_id |-> 1, role |-> "assistant",
                     content |-> ReasonedAnswer]>>
    /\ lastAsk = NoAsk
    /\ lastHandle = NoHandle
    /\ nHandled = 0
    /\ lastCall = NoCall
    /\ saved = [u \in Urls |-> <<>>]
    /\ anyWriteFailed = FALSE
    /\ sessions = [s \in SessionIds |-> IdleSession]
    /\ req = NoRequest

InitAsk == Init \/ InSession

\* ask_question called on its own.
NextAsk ==
    \E a \in {ArticleA, ArticleNoUrl}, q \in Questions, resp \in HttpOutcomes,
       g2 \in G2Outcomes, g3 \in G3Outcomes, g4 \in G4Outcomes :
       AskCall(a, q, resp, g2, g3, g4)

SpecAsk == InitAsk /\ [][NextAsk]_vars

\* fetch_full_article called on its own.  A container is absent, present and empty,
\* or present with children.
Containers ==
    { <<>>,
      << <<>> >>,
      << <<Node("p", BodyText)>> >>,
      << <<Node("script", AuthMsg), Node("p", PaddedAnswer), Node("p", TenChars)>> >>,
      << <<Node("figure", TenChars), Node("p", ReasonedAnswer)>> >>,
      << <<Node("p", NotAvailable)>> >> }

FetchResponses ==
    HttpErrors \cup {Page(sd, ar, ab) : sd \in Containers, ar \in Containers, ab \in Containers}

FetchCall(resp) ==
    /\ lastCall' = [op |-> "fetch_full_article", resp |-> resp,
                    raised |-> FetchOutcome(resp).raised,
                    result |-> FetchOutcome(resp).text]
    /\ UNCHANGED <<user, open_chats, convo_map, article_chats, conversations, messages,
                   lastAsk, lastHandle, nHandled, saved, anyWriteFailed, sessions, req>>

NextFetch == \E resp \in FetchResponses : FetchCall(resp)

SpecFetch == Init /\ [][NextFetch]_vars

SpecConc == Init /\ [][NextConc]_vars

\* The program's own steps are taken when they can be: a call that has its answer
\* returns.  Nothing is assumed of the server.
SpecHang == Init /\ [][NextHang]_vars /\ WF_vars(ProgramStep)

\* The store's accessors called on their own.
NextStore ==
    \/ \E u \in Users, url \in Urls, ioOk \in BOOLEAN : CreateConversationCall(u, url, ioOk)
    \/ \E cid \in 1..(MaxConversations + 1), role \in Roles, content \in Contents,
          ioOk \in BOOLEAN : SaveMessageCall(cid, role, content, ioOk)
    \/ \E url \in Urls : GetMessagesCall(url)

SpecStore == Init /\ [][NextStore]_vars

----------------------------------------------------------------------------
(* Claims about ask_question, checked under SpecAsk. *)

CountStage(calls, stage) == Cardinality({i \in 1..Len(calls) : calls[i].stage = stage})

\* C1 as stated: whenever the extraction call returns a text that is not "NOT_FOUND"
\* and is longer than 10 characters, the result is "From the article: " followed by
\* that text and exactly one completion call is made.
C1_ReturnedTextIsAttributed ==
    (/\ lastAsk.called
     /\ lastAsk.g2.ok
     /\ lastAsk.g2.text # NOT_FOUND
     /\ Len(lastAsk.g2.text) > 10)
    => /\ lastAsk.out.result = FromTheArticle \o lastAsk.g2.text
       /\ Len(lastAsk.out.calls) = 1

\* C1 amended: whenever the text returned by the extraction call, with its leading and
\* trailing whitespace removed, is not "NOT_FOUND" and is longer than 10 characters, the
\* result is "From the article: " followed by the stripped text, and the extraction call
\* is the only completion call.
C1_StrippedTextIsAttributed ==
    (/\ lastAsk.called
     /\ lastAsk.g2.ok
     /\ Strip(lastAsk.g2.text) # NOT_FOUND
     /\ Len(Strip(lastAsk.g2.text)) > 10)
    => /\ lastAsk.out.result = FromTheArticle \o Strip(lastAsk.g2.text)
       /\ Len(lastAsk.out.calls) = 1
       /\ lastAsk.out.calls[1].stage = "extraction"

C1_Witness ==
    /\ lastAsk.called
    /\ lastAsk.g2 = Ok(PaddedAnswer)
    /\ lastAsk.out.result = FromTheArticle \o DirectAnswer
    /\ Len(lastAsk.out.calls) = 1

\* C2: whenever stage 2 yields "NOT_FOUND", yields 10 characters or fewer, or raises,
\* the reasoning call is made exactly once; if it succeeds its text is the result,
\* unchanged and without prefix, and two completion calls were made in all.
C2_ReasoningOnceThenReturned ==
    (/\ lastAsk.called
     /\ \/ ~lastAsk.g2.ok
        \/ Strip(lastAsk.g2.text) = NOT_FOUND
        \/ Len(Strip(lastAsk.g2.text)) <= 10)
    => /\ CountStage(lastAsk.out.calls, "reasoning") = 1
       /\ lastAsk.g3.ok => /\ lastAsk.out.result = lastAsk.g3.text
                           /\ Len(lastAsk.out.calls) = 2

C2_Witness ==
    /\ lastAsk.called
    /\ lastAsk.article = ArticleA
    /\ lastAsk.question = WhatHappened
    /\ lastAsk.g2 = Ok(NOT_FOUND)
    /\ lastAsk.g3 = Ok(ReasonedAnswer)
    /\ lastAsk.out.result = ReasonedAnswer
    /\ Len(lastAsk.out.calls) = 2

\* C3: the fallback call is made only if the reasoning call raised, and then exactly
\* once; if the fallback call raises too, the result carries the message of the
\* reasoning call's exception, not the fallback's, and the instruction to rephrase.
C3_FallbackOnlyAfterReasoningRaised ==
    lastAsk.called =>
      LET reasoningRaised == CountStage(lastAsk.out.calls, "reasoning") = 1 /\ ~lastAsk.g3.ok
      IN  /\ CountStage(lastAsk.out.calls, "fallback") = IF reasoningRaised THEN 1 ELSE 0
          /\ (reasoningRaised /\ ~lastAsk.g4.ok)
             => /\ Contains(lastAsk.out.result, lastAsk.g3.msg)
                /\ ~Contains(lastAsk.out.result, lastAsk.g4.msg)
                /\ Contains(lastAsk.out.result, PleaseRephrase)

C3_Witness ==
    /\ lastAsk.called
    /\ lastAsk.g2 = Ok(NOT_FOUND)
    /\ lastAsk.g3 = Raises(QuotaMsg)
    /\ lastAsk.g4 = Raises(TimeoutMsg)
    /\ CountStage(lastAsk.out.calls, "fallback") = 1
    /\ lastAsk.out.result = ErrorGenerating \o QuotaMsg \o PleaseRephrase

\* C4: ask_question never raises and always returns a text, whatever the fetch yields
\* and whichever of the three completion calls fail.
C4_AlwaysReturnsText ==
    lastAsk.called =>
      /\ ~lastAsk.out.raised
      /\ DOMAIN lastAsk.out.result = 1..Len(lastAsk.out.result)
      /\ Len(lastAsk.out.calls) \in 1..3
      /\ (~lastAsk.g2.ok /\ ~lastAsk.g3.ok /\ ~lastAsk.g4.ok)
         => Contains(lastAsk.out.result, ErrorGenerating)

C4_Witness ==
    /\ lastAsk.called
    /\ lastAsk.article.url # ""
    /\ lastAsk.resp.kind = "error"
    /\ ~lastAsk.g2.ok /\ ~lastAsk.g3.ok /\ ~lastAsk.g4.ok
    /\ ~lastAsk.out.raised
    /\ Len(lastAsk.out.calls) = 3

\* C5: when the article has no url, or the fetch reports the body unavailable (the
\* "not available" sentinel or an error text), the context of the extraction prompt
\* is title + "\n\n" + description.
C5_ContextFallsBackToTitleAndDescription ==
    (/\ lastAsk.called
     /\ \/ lastAsk.article.url = ""
        \/ lastAsk.resp.kind = "error"
        \/ ArticleBody(lastAsk.resp) = <<>>)
    => lastAsk.out.calls[1].context =
          lastAsk.article.title \o ParagraphBreak \o lastAsk.article.description

----------------------------------------------------------------------------
(* Claims about the session, checked under Spec. *)

\* C6 as stated: a handled question makes at most three outbound network calls and at
\* most two writes to the store.
C6_ThreeCallsTwoWrites ==
    lastHandle.handled => lastHandle.netCalls <= 3 /\ lastHandle.dbWrites <= 2

\* C6 amended: a handled question makes at most four outbound network calls (the fetch
\* and up to three completion calls) and at most three writes to the store
\* (create_conversation and two save_message); at most two writes when a conversation
\* id was already cached under the article's key.
C6_FourCallsThreeWrites ==
    lastHandle.handled =>
      /\ lastHandle.netCalls <= 4
      /\ lastHandle.dbWrites <= 3
      /\ lastHandle.cached => lastHandle.dbWrites <= 2

C6_Witness ==
    /\ lastHandle.handled
    /\ lastHandle.netCalls = 4
    /\ lastHandle.dbWrites = 3

\* C8: n questions in a row on one article, all store writes succeeding, leave exactly
\* one conversation row and exactly 2n message rows, all of them in the conversation
\* whose id is cached under the article's key.
C8_OneConversationPerArticle ==
    \A a \in SessionArticles :
      (/\ nHandled >= 1
       /\ ~anyWriteFailed
       /\ Len(article_chats[a.url]) = 2 * nHandled)
      => /\ Len(conversations) = 1
         /\ conversations[1].article_url = a.url
         /\ convo_map[url_hash(a.url)] = conversations[1].id
         /\ Len(messages) = 2 * nHandled
         /\ \A i \in 1..Len(messages) : messages[i].conversation_id = conversations[1].id

C8_Witness ==
    /\ nHandled >= 2
    /\ ~anyWriteFailed
    /\ Len(article_chats[UrlA]) = 2 * nHandled
    /\ Len(conversations) = 1
    /\ Len(messages) = 2 * nHandled

\* C10: handling a question appends to the article's transcript the user entry with the
\* question and then the assistant entry with the answer, and changes no other entry of
\* any transcript, also when store writes fail and when the question was asked before.
C10_TranscriptGainsOnePair ==
    [][nHandled' = nHandled + 1 =>
         article_chats' = [article_chats EXCEPT ![lastHandle'.url] =
                              @ \o << [role |-> "user", content |-> lastHandle'.question],
                                      [role |-> "assistant", content |-> lastHandle'.answer] >>]]_vars

C10_Witness ==
    /\ lastHandle.handled
    /\ lastHandle.createRaised \/ lastHandle.saveRaised
    /\ Len(article_chats[lastHandle.url]) = 4
    /\ article_chats[lastHandle.url][1] = article_chats[lastHandle.url][3]
    /\ article_chats[lastHandle.url][4].content = lastHandle.answer

----------------------------------------------------------------------------
(* Claims about the store's accessors, checked under SpecStore. *)

\* C7: save_message with a conversation id that has no conversation row raises and
\* writes nothing, so no message row ever names a conversation that does not exist.
C7_UnknownConversationRejected ==
    /\ (lastCall.op = "save_message" /\ ~lastCall.known) => lastCall.raised
    /\ \A i \in 1..Len(messages) :
          messages[i].conversation_id \in ConversationIds(conversations)

\* C9: get_messages_for_article(url) returns exactly the (role, content) pairs saved
\* into conversations of that url, of every conversation and every user, in the order
\* in which they were saved (saved records each pair under the url its conversation
\* had when save_message was called; a pair saved under no conversation is under no url).
C9_MessagesOfArticleInOrder ==
    lastCall.op = "get_messages_for_article" => lastCall.result = saved[lastCall.url]

----------------------------------------------------------------------------
(* Further claims about the session. *)

\* C12: message rows are append-only: across every step the rows of the earlier state
\* are a prefix of the rows of the later state.
C12_MessagesAppendOnly ==
    [][/\ Len(messages') >= Len(messages)
       /\ SubSeq(messages', 1, Len(messages)) = messages]_vars

C12_Witness ==
    /\ Len(messages) >= 3
    /\ \E i \in 1..Len(messages) : messages[i].role = "assistant"

\* C17: every message row written while user u is logged in is attached to a
\* conversation row whose user_id is u.
C17_MessagesGoToOwnConversation ==
    (lastHandle.handled /\ lastHandle.convo_id # 0)
    => \A i \in 1..Len(conversations) :
          conversations[i].id = lastHandle.convo_id
          => conversations[i].user_id = lastHandle.user

\* C19: when create_conversation fails no id is cached under the article's key and the
\* question writes no row, so the next question on the article finds no cached id and
\* calls create_conversation again; an id, once cached, is never replaced.
C19_FailedCreateCachesNothing ==
    [][/\ (nHandled' = nHandled + 1 /\ lastHandle'.createRaised)
          => /\ convo_map' = convo_map
             /\ convo_map'[url_hash(lastHandle'.url)] = 0
             /\ conversations' = conversations
             /\ messages' = messages
       /\ nHandled' = nHandled + 1
          => (lastHandle'.createCalled <=> convo_map[url_hash(lastHandle'.url)] = 0)
       /\ \A k \in ConvoKeys : convo_map[k] # 0 => convo_map'[k] = convo_map[k]]_vars

C19_Witness ==
    /\ nHandled = 2
    /\ lastHandle.handled
    /\ lastHandle.createCalled
    /\ ~lastHandle.createRaised
    /\ Len(article_chats[lastHandle.url]) = 4
    /\ Len(conversations) = 1
    /\ Len(messages) = 2

\* C20: questions about articles with different urls never share a conversation: every
\* message row is attached to a conversation row whose article_url is the url of the
\* article the question was asked about.
C20_MessagesGoToOwnArticle ==
    (lastHandle.handled /\ lastHandle.convo_id # 0)
    => \A i \in 1..Len(conversations) :
          conversations[i].id = lastHandle.convo_id
          => conversations[i].article_url = lastHandle.url

\* The rows of one conversation, in insertion order.
MessagesOf(msgs, conversation_id) ==
    SelectSeq(msgs, LAMBDA m : m.conversation_id = conversation_id)

Alternates(rows) ==
    \A i \in 1..Len(rows) :
        rows[i].role = (IF i % 2 = 1 THEN "user" ELSE "assistant")

AllAlternate(msgs) ==
    \A c \in {msgs[i].conversation_id : i \in 1..Len(msgs)} : Alternates(MessagesOf(msgs, c))

----------------------------------------------------------------------------
(* Claims about fetch_full_article and the frame of ask_question. *)

Fetched == lastCall.op = "fetch_full_article"

StartsWith(s, prefix) == Len(s) >= Len(prefix) /\ SubSeq(s, 1, Len(prefix)) = prefix

ErrorFetchingHead == SubSeq(ErrorFetching, 1, Len(ErrorFetching) - 2)

\* C13: fetch_full_article never raises; a failed request yields a text starting with
\* "Error fetching full article"; a page with none of the containers yields the
\* sentinel "Full article content not available.", which is no error text; otherwise
\* the text is that of the first present container in the order storyDetail, article,
\* article-body.
C13_FetchNeverRaises ==
    Fetched =>
       LET resp == lastCall.resp
           out  == lastCall.result
       IN  /\ ~lastCall.raised
           /\ resp.kind = "error"
              => StartsWith(out, ErrorFetchingHead) /\ out # NotAvailable
           /\ resp.kind = "page"
              => /\ (resp.storyDetail = <<>> /\ resp.article = <<>> /\ resp.articleBody = <<>>)
                    => out = NotAvailable /\ ~StartsWith(out, ErrorFetchingHead)
                 /\ resp.storyDetail # <<>> => out = GetText(resp.storyDetail[1])
                 /\ (resp.storyDetail = <<>> /\ resp.article # <<>>)
                    => out = GetText(resp.article[1])
                 /\ (resp.storyDetail = <<>> /\ resp.article = <<>> /\ resp.articleBody # <<>>)
                    => out = GetText(resp.articleBody[1])

C13_Witness ==
    /\ Fetched
    /\ lastCall.resp.kind = "page"
    /\ lastCall.resp.storyDetail = <<>>
    /\ lastCall.resp.article # <<>>
    /\ lastCall.resp.articleBody # <<>>
    /\ lastCall.resp.articleBody # lastCall.resp.article
    /\ lastCall.result = Strip(PaddedAnswer) \o TenChars

\* C15: a text longer than 4000 characters becomes its first 4000 characters followed
\* by "..."; a text of 4000 characters or fewer is the context unchanged.
C15_ContextTruncatedAbove4000 ==
    lastAsk.called =>
       LET full == FullContent(lastAsk.article, lastAsk.resp)
           ctx  == lastAsk.out.context
       IN  /\ Len(full) > 4000
              => /\ Len(ctx) = 4003
                 /\ \A i \in 1..4000 : ctx[i] = full[i]
                 /\ \A i \in 4001..4003 : ctx[i] = "."
           /\ Len(full) <= 4000 => ctx = full

C15_Witness ==
    /\ lastAsk.called
    /\ Len(FullContent(lastAsk.article, lastAsk.resp)) = 4001
    /\ Len(lastAsk.out.context) = 4003
    /\ lastAsk.out.context[4000] = "x"
    /\ lastAsk.out.context[4001] = "."

\* C16: a call of ask_question leaves the conversation and message tables, the
\* conversation-id cache and the transcripts as they were, whatever its stages did.
C16_AskQuestionMutatesNothing ==
    [][lastAsk' # lastAsk
       => /\ conversations' = conversations
          /\ messages' = messages
          /\ convo_map' = convo_map
          /\ article_chats' = article_chats
          /\ open_chats' = open_chats
          /\ user' = user]_vars

C16_Witness ==
    /\ lastAsk.called
    /\ Len(lastAsk.out.calls) = 3
    /\ Len(messages) = 2
    /\ Len(article_chats[UrlA]) = 2
    /\ convo_map[url_hash(UrlA)] = 1

----------------------------------------------------------------------------
(* Claims about concurrent sessions and about termination. *)

\* C11: two concurrent sessions of one user on one article each keep their own cached
\* id and create their own conversation row: no row is reused, the ids are distinct,
\* and under every interleaving each message row is attached to a conversation created
\* by the session that wrote the message.
C11_SessionsKeepOwnConversation ==
    /\ \A s \in SessionIds :
          /\ sessions[s].cache # 0 => sessions[s].cache \in sessions[s].created
          /\ \A i \in sessions[s].wrote :
                messages[i].conversation_id \in sessions[s].created
    /\ sessions[1].created \cap sessions[2].created = {}
    /\ sessions[1].wrote \cap sessions[2].wrote = {}
    /\ Len(conversations) = Cardinality(sessions[1].created) + Cardinality(sessions[2].created)
    /\ Cardinality(ConversationIds(conversations)) = Len(conversations)
    /\ (sessions[1].cache # 0 /\ sessions[2].cache # 0)
       => /\ sessions[1].cache # sessions[2].cache
          /\ Len(conversations) = 2

C11_Witness ==
    /\ sessions[1].n = MaxConcQuestions
    /\ sessions[2].n = MaxConcQuestions
    /\ Len(conversations) = 2
    /\ sessions[1].wrote = {2, 3, 6, 7}
    /\ sessions[2].wrote = {1, 4, 5, 8}
    /\ sessions[1].created = {2}
    /\ messages[1].conversation_id = 1
    /\ messages[2].conversation_id = 2

\* C14: a question whose article is being fetched is eventually answered, even when
\* the server never responds.
C14_EveryQuestionAnswered == (req.pc = "fetching") ~> (req.pc = "answered")

====
